---- MODULE Spec2Model ----
(***************************************************************************)
(* A model of the desktop GUI controller of src/src/gui.rs: the locale     *)
(* chosen by RuffleGui::new, the text lookup with fallback (text,          *)
(* text_with_args), and the per-frame RuffleGui::update with the menu bar, *)
(* the about window and the (disabled) URL prompt.                         *)
(*                                                                         *)
(* Strings that the code inspects character by character (the host's       *)
(* locale hint) are sequences of one-character strings.  Message ids and   *)
(* command names are only compared, so they are plain strings.             *)
(***************************************************************************)
EXTENDS Integers, Sequences, FiniteSets, TLC

VARIABLES
    phase,                      \* which part of the program the run exercises
    hint,                       \* what sys_locale::get_locale() returned
    locale,                     \* RuffleGui.locale
    open_url_text,              \* RuffleGui.open_url_text
    is_about_visible,           \* RuffleGui.is_about_visible
    is_open_url_prompt_visible, \* RuffleGui.is_open_url_prompt_visible
    menu,                       \* egui's memory: the menu popover that is open
    down,                       \* the shortcut chords that are down
    tick,                       \* the inputs and the effects of the last update
    run,                        \* what a recording receiver has seen of the run
    call                        \* the last call of text / text_with_args

vars == <<phase, hint, locale, open_url_text, is_about_visible,
          is_open_url_prompt_visible, menu, down, tick, run, call>>

(***************************************************************************)
(* Characters                                                              *)
(***************************************************************************)
Lowers == <<"a","b","c","d","e","f","g","h","i","j","k","l","m",
            "n","o","p","q","r","s","t","u","v","w","x","y","z">>
Uppers == <<"A","B","C","D","E","F","G","H","I","J","K","L","M",
            "N","O","P","Q","R","S","T","U","V","W","X","Y","Z">>
Digits == {"0","1","2","3","4","5","6","7","8","9"}

Range(s) == {s[i] : i \in DOMAIN s}

Count(s, x) == Cardinality({i \in DOMAIN s : s[i] = x})

IsLower(c) == c \in Range(Lowers)
IsUpper(c) == c \in Range(Uppers)
IsAlpha(c) == IsLower(c) \/ IsUpper(c)
IsDigit(c) == c \in Digits
IsAlnum(c) == IsAlpha(c) \/ IsDigit(c)

IndexIn(c, s) == CHOOSE i \in DOMAIN s : s[i] = c

ToLower(c) == IF IsUpper(c) THEN Lowers[IndexIn(c, Uppers)] ELSE c
ToUpper(c) == IF IsLower(c) THEN Uppers[IndexIn(c, Lowers)] ELSE c

LowerCase(s) == [i \in DOMAIN s |-> ToLower(s[i])]
UpperCase(s) == [i \in DOMAIN s |-> ToUpper(s[i])]
TitleCase(s) == [i \in DOMAIN s |-> IF i = 1 THEN ToUpper(s[i]) ELSE ToLower(s[i])]

AllAlpha(s) == \A i \in DOMAIN s : IsAlpha(s[i])
AllDigit(s) == \A i \in DOMAIN s : IsDigit(s[i])
AllAlnum(s) == \A i \in DOMAIN s : IsAlnum(s[i])

(***************************************************************************)
(* unic_langid's LanguageIdentifier, as `l.parse()` of RuffleGui::new      *)
(* builds it: the hint is split at '-' and '_'; the first subtag is the    *)
(* language, then an optional script, an optional region and variants, in  *)
(* that order.  Subtags are stored in canonical case.  An absent subtag is *)
(* the empty sequence; the variants are a sorted list without duplicates,  *)
(* kept here as a set.                                                     *)
(***************************************************************************)
None == <<>>

IsSep(c) == c \in {"-", "_"}

SplitTags(s) ==
    LET RECURSIVE go(_, _, _)
        go(i, cur, acc) ==
            IF i > Len(s) THEN Append(acc, cur)
            ELSE IF IsSep(s[i]) THEN go(i + 1, <<>>, Append(acc, cur))
            ELSE go(i + 1, Append(cur, s[i]), acc)
    IN  go(1, <<>>, <<>>)

IsLanguage(t) == Len(t) \in 2..8 /\ Len(t) # 4 /\ AllAlpha(t)
IsScript(t) == Len(t) = 4 /\ AllAlpha(t)
IsRegion(t) == \/ Len(t) = 2 /\ AllAlpha(t)
               \/ Len(t) = 3 /\ AllDigit(t)
IsVariant(t) == \/ Len(t) \in 5..8 /\ AllAlnum(t)
                \/ Len(t) = 4 /\ IsDigit(t[1]) /\ AllAlnum(t)

Und == <<"u","n","d">>

LanguageOf(t) == IF LowerCase(t) = Und THEN None ELSE LowerCase(t)

LangId(language, script, region, variants) ==
    [language |-> language, script |-> script, region |-> region,
     variants |-> variants]

ParseError == [ok |-> FALSE]
ParseOk(id) == [ok |-> TRUE, id |-> id]

\* position: 1 = a script may follow, 2 = a region may follow, 3 = variants
ParseSubtags(tags, id) ==
    LET RECURSIVE go(_, _, _)
        go(i, position, acc) ==
            IF i > Len(tags) THEN ParseOk(acc)
            ELSE LET t == tags[i] IN
                 IF position = 1 /\ IsScript(t)
                 THEN go(i + 1, 2, [acc EXCEPT !.script = TitleCase(t)])
                 ELSE IF position \in {1, 2} /\ IsRegion(t)
                 THEN go(i + 1, 3, [acc EXCEPT !.region = UpperCase(t)])
                 ELSE IF IsVariant(t)
                 THEN go(i + 1, 3,
                         [acc EXCEPT !.variants = @ \cup {LowerCase(t)}])
                 ELSE ParseError
    IN  go(1, 1, id)

Parse(s) ==
    LET tags == SplitTags(s) IN
    IF ~IsLanguage(tags[1]) THEN ParseError
    ELSE ParseSubtags(Tail(tags),
                      LangId(LanguageOf(tags[1]), None, None, {}))

\* Display of a LanguageIdentifier without variants: the subtags joined by '-'.
Display(id) ==
    (IF id.language = None THEN Und ELSE id.language)
    \o (IF id.script = None THEN <<>> ELSE <<"-">> \o id.script)
    \o (IF id.region = None THEN <<>> ELSE <<"-">> \o id.region)

IsLangId(v) ==
    /\ DOMAIN v = {"language", "script", "region", "variants"}
    /\ v.language = None \/ (IsLanguage(v.language) /\ v.language = LowerCase(v.language))
    /\ v.script = None \/ (IsScript(v.script) /\ v.script = TitleCase(v.script))
    /\ v.region = None \/ (IsRegion(v.region) /\ v.region = UpperCase(v.region))
    /\ \A t \in v.variants : IsVariant(t) /\ t = LowerCase(t)

Tag_en_US == <<"e","n","-","U","S">>
Tag_ja_JP == <<"j","a","-","J","P">>
Tag_xx_ZZ == <<"x","x","-","Z","Z">>

\* static US_ENGLISH: LanguageIdentifier = langid!("en-US"), built when the
\* program is compiled
US_ENGLISH == LangId(<<"e","n">>, None, <<"U","S">>, {})
JAPANESE == LangId(<<"j","a">>, None, <<"J","P">>, {})

(***************************************************************************)
(* RuffleGui::new: the locale it stores for a host hint.  Absent is the    *)
(* hint get_locale() gives when the host names no language.                *)
(***************************************************************************)
Absent == [some |-> FALSE]
Some(s) == [some |-> TRUE, value |-> s]

\* Variants of ResolveLocale with a plausible slip: a hint the catalog has no
\* messages for gives the default; a failed parse gives the empty identifier
\* (unwrap_or_default).
ResolveLocaleNegotiated(preferred_locale) ==
    IF /\ preferred_locale.some
       /\ Parse(preferred_locale.value).ok
       /\ Parse(preferred_locale.value).id \in {US_ENGLISH, JAPANESE}
    THEN Parse(preferred_locale.value).id
    ELSE US_ENGLISH

ResolveLocaleOrDefault(preferred_locale) ==
    IF preferred_locale.some /\ Parse(preferred_locale.value).ok
    THEN Parse(preferred_locale.value).id
    ELSE LangId(None, None, None, {})

ResolveLocale(preferred_locale) ==
    IF preferred_locale.some /\ Parse(preferred_locale.value).ok
    THEN Parse(preferred_locale.value).id
    ELSE US_ENGLISH

(***************************************************************************)
(* The text catalog TEXTS (static_loader!, locales "./assets/texts",       *)
(* fallback_language "en-US").  The asset files are not part of the        *)
(* sources at hand: the catalog below holds the message ids the GUI uses   *)
(* in en-US and fewer of them in ja-JP.  A template is named by the        *)
(* locale and the id it is stored under.                                   *)
(***************************************************************************)
MenuIds == {"file-menu", "file-menu-open-file", "file-menu-close",
            "file-menu-exit", "help-menu", "help-menu-join-discord",
            "help-menu-report-a-bug", "help-menu-sponsor-development",
            "help-menu-translate-ruffle", "help-menu-about"}
AboutIds == {"about-ruffle", "about-ruffle-version"}
PromptIds == {"open-url", "dialog-ok", "dialog-cancel"}
UnknownIds == {"no-such-text", "file-menu-open"}
MessageIds == MenuIds \cup AboutIds \cup PromptIds \cup UnknownIds

FallbackLanguage == US_ENGLISH

CatalogLocales == {US_ENGLISH, JAPANESE}

CatalogIds(l) ==
    IF l = US_ENGLISH THEN MenuIds \cup AboutIds \cup PromptIds
    ELSE IF l = JAPANESE
    THEN {"file-menu", "file-menu-open-file", "help-menu", "about-ruffle"}
    ELSE {}

Template(l, id) == [locale |-> l, id |-> id]

\* Loader::lookup_with_args of the static loader: the requested locale's
\* message, else the fallback language's, else nothing.  args is Absent for
\* Loader::lookup.
LookupWithArgs(l, id, args) ==
    IF l \in CatalogLocales /\ id \in CatalogIds(l)
    THEN Some([template |-> Template(l, id), args |-> args])
    ELSE IF id \in CatalogIds(FallbackLanguage)
    THEN Some([template |-> Template(FallbackLanguage, id), args |-> args])
    ELSE Absent

Lookup(l, id) == LookupWithArgs(l, id, Absent)

\* Cow::Owned(message) / Cow::Borrowed(id)
Owned(message) == [cow |-> "owned", message |-> message]
Borrowed(id) == [cow |-> "borrowed", id |-> id]

\* What a call returns and what it logs with tracing::error!.
Returned(value, errors) == [value |-> value, errors |-> errors]

UnknownTextId(id) == <<"Unknown desktop text id", id>>

\* A variant of text that looks every id up in en-US, whatever the locale.
text_english_only(l, id) ==
    LET found == Lookup(US_ENGLISH, id) IN
    IF found.some THEN Returned(Owned(found.value), <<>>)
    ELSE Returned(Borrowed(id), <<UnknownTextId(id)>>)

\* A variant of text that returns the id of an unknown message without logging.
text_silent(l, id) ==
    LET found == Lookup(l, id) IN
    IF found.some THEN Returned(Owned(found.value), <<>>)
    ELSE Returned(Borrowed(id), <<>>)

text(l, id) ==
    LET found == Lookup(l, id) IN
    IF found.some THEN Returned(Owned(found.value), <<>>)
    ELSE Returned(Borrowed(id), <<UnknownTextId(id)>>)

text_with_args(l, id, args) ==
    LET found == LookupWithArgs(l, id, Some(args)) IN
    IF found.some THEN Returned(Owned(found.value), <<>>)
    ELSE Returned(Borrowed(id), <<UnknownTextId(id)>>)

(***************************************************************************)
(* The inputs of one update: the caller's flags and what egui's input      *)
(* holds for the frame.  A key chord is "pressed" in the frame that        *)
(* receives its press event, "held" in a later frame while it is still     *)
(* down (the frame's events hold no press of it), else "up".  At most one  *)
(* pointer click per frame, on the place of one widget.                    *)
(***************************************************************************)
Shortcuts == {"O", "Q"}            \* COMMAND+O, COMMAND+Q
KeyStatus == {"up", "pressed", "held"}

FileItems == {"OpenFile", "Close", "Exit"}
Links == {"Discord", "ReportBug", "Sponsor", "Translate"}
HelpItems == Links \cup {"About"}
ClickTargets == {"None", "FileMenu", "HelpMenu", "AboutClose"}
                \cup FileItems \cup HelpItems

LinkUrl(link) ==
    CASE link = "Discord" -> "https://discord.gg/ruffle"
      [] link = "ReportBug" ->
            "https://github.com/ruffle-rs/ruffle/issues/new?assignees=&labels=bug&projects=&template=bug_report.yml"
      [] link = "Sponsor" -> "https://opencollective.com/ruffle/"
      [] link = "Translate" -> "https://crowdin.com/project/ruffle"

ItemsOf(m) ==
    CASE m = "file" -> FileItems
      [] m = "help" -> HelpItems
      [] OTHER -> {}

(***************************************************************************)
(* The frame state the handlers of update work on: the controller's fields *)
(* (&mut self), egui's open menu and pending events, whether the event     *)
(* loop behind the proxy is still there, and what the frame has done so    *)
(* far (commands handed to send_event and the result of each, websites     *)
(* launched, the widget that reported clicked(), shortcuts consumed, ids   *)
(* logged as unknown).                                                     *)
(***************************************************************************)
Frame(in) ==
    [locale |-> locale,
     open_url_text |-> open_url_text,
     is_about_visible |-> is_about_visible,
     is_open_url_prompt_visible |-> is_open_url_prompt_visible,
     menu |-> menu,
     receiver_open |-> in.receiver_open,
     results |-> <<>>,
     events |-> {k \in Shortcuts : in.keys[k] = "pressed"},
     down |-> {k \in Shortcuts : in.keys[k] # "up"},
     cmds |-> <<>>,
     launched |-> <<>>,
     clicked |-> "None",
     consumed |-> {},
     errors |-> {}]

\* text(&self.locale, id) for a label: the frame goes on with the label drawn,
\* and the id is logged when the catalog has no message for it.
Label(st, id) ==
    IF text(st.locale, id).errors = <<>> THEN st
    ELSE [st EXCEPT !.errors = @ \cup {id}]

\* A variant of ConsumeShortcut that looks at the keys that are down instead of
\* the frame's press events.
ConsumeShortcutWhileDown(st, key) ==
    [consumed |-> key \in st.down,
     st |-> [st EXCEPT !.events = @ \ {key},
                       !.consumed = @ \cup ({key} \cap st.down)]]

\* input.consume_shortcut: true when the frame's events hold a press of the
\* chord, which is then removed from the events.
ConsumeShortcut(st, key) ==
    [consumed |-> key \in st.events,
     st |-> [st EXCEPT !.events = @ \ {key},
                       !.consumed = @ \cup ({key} \cap st.events)]]

\* self.event_loop.send_event(event): Ok(()) when the event loop is there,
\* Err(EventLoopClosed) when it is gone.  The callers drop the result
\* (`let _ =`), so the frame only keeps it as part of what happened.
send_event(st, event) ==
    [st EXCEPT !.cmds = Append(@, event),
               !.results = Append(@, IF st.receiver_open THEN "Ok"
                                     ELSE "EventLoopClosed")]

\* ui.close_menu(): closes the menu the ui is part of; the panel's own ui is
\* part of none.
close_menu(st, ui) == IF ui = "menu" THEN [st EXCEPT !.menu = "none"] ELSE st

\* A variant of open_file that hands a failed send on to its caller (`?`) and
\* so returns before the menu is closed.
open_file_propagating(st, ui) ==
    IF st.receiver_open THEN close_menu(send_event(st, "OpenFile"), ui)
    ELSE send_event(st, "OpenFile")

open_file(st, ui) == close_menu(send_event(st, "OpenFile"), ui)

close_movie(st, ui) == close_menu(send_event(st, "CloseFile"), ui)

\* A variant of request_exit that closes the menu and sends nothing.
request_exit_silent(st, ui) == close_menu(st, ui)

request_exit(st, ui) == close_menu(send_event(st, "ExitRequested"), ui)

\* A variant of launch_website that asks the application to open the URL.
launch_website_by_command(st, in, ui, url) ==
    close_menu(send_event(st, <<"OpenURL", url>>), ui)

\* A variant of launch_website that leaves the menu open when the browser
\* could not be started.
launch_website_keeps_menu(st, in, ui, url) ==
    LET s1 == [st EXCEPT !.launched =
                   Append(@, [url |-> url, ok |-> in.browser_ok])]
    IN  IF in.browser_ok THEN close_menu(s1, ui) ELSE s1

\* webbrowser::open(url), the result (ok or not) dropped
launch_website(st, in, ui, url) ==
    close_menu([st EXCEPT !.launched =
                    Append(@, [url |-> url, ok |-> in.browser_ok])], ui)

\* show_open_url_prompt: called from nowhere in this build (its only call,
\* in the File menu, is commented out).
show_open_url_prompt(st, ui) ==
    close_menu([st EXCEPT !.is_open_url_prompt_visible = TRUE], ui)

\* A variant of show_about_screen that flips the flag.
toggle_about_screen(st, ui) ==
    close_menu([st EXCEPT !.is_about_visible = ~@], ui)

\* A variant of show_about_screen that shows the URL prompt instead.
show_about_screen_sets_prompt(st, ui) == show_open_url_prompt(st, ui)

show_about_screen(st, ui) ==
    close_menu([st EXCEPT !.is_about_visible = TRUE], ui)

\* A variant of Clicked that reports clicks on disabled widgets too.
ClickedWhenDisabled(in, target, enabled) == in.click = target

\* A button drawn at `target`: clicked() when the frame's click is on it and the
\* widget is enabled.
Clicked(in, target, enabled) == in.click = target /\ enabled

Click(st, target) == [st EXCEPT !.clicked = target]

\* menu::menu_button: a click on the button opens its menu, or closes it when
\* it is open; a click outside the open menu closes it.
MenuAfterClick(m, click) ==
    CASE click = "None" -> m
      [] click = "FileMenu" -> IF m = "file" THEN "none" ELSE "file"
      [] click = "HelpMenu" -> IF m = "help" THEN "none" ELSE "help"
      [] click \in ItemsOf(m) -> m
      [] OTHER -> "none"

file_menu(st, in) ==
    LET l1 == Label(Label(Label(st, "file-menu-open-file"), "file-menu-close"),
                    "file-menu-exit")
        s1 == IF Clicked(in, "OpenFile", TRUE)
              THEN open_file(Click(l1, "OpenFile"), "menu") ELSE l1
        s2 == IF Clicked(in, "Close", in.has_movie)
              THEN close_movie(Click(s1, "Close"), "menu") ELSE s1
        s3 == IF Clicked(in, "Exit", TRUE)
              THEN request_exit(Click(s2, "Exit"), "menu") ELSE s2
    IN  s3

help_link(st, in, link, id) ==
    LET l1 == Label(st, id) IN
    IF Clicked(in, link, TRUE)
    THEN launch_website(Click(l1, link), in, "menu", LinkUrl(link)) ELSE l1

help_menu(st, in) ==
    LET s1 == help_link(st, in, "Discord", "help-menu-join-discord")
        s2 == help_link(s1, in, "ReportBug", "help-menu-report-a-bug")
        s3 == help_link(s2, in, "Sponsor", "help-menu-sponsor-development")
        s4 == help_link(s3, in, "Translate", "help-menu-translate-ruffle")
        l5 == Label(s4, "help-menu-about")
    IN  IF Clicked(in, "About", TRUE)
        THEN show_about_screen(Click(l5, "About"), "menu") ELSE l5

main_menu_bar(st, in) ==
    LET c1 == ConsumeShortcut(st, "O")
        s1 == IF c1.consumed THEN open_file(c1.st, "panel") ELSE c1.st
        c2 == ConsumeShortcut(s1, "Q")
        s2 == IF c2.consumed THEN request_exit(c2.st, "panel") ELSE c2.st
        open == s2.menu
        s3 == [Label(Label(s2, "file-menu"), "help-menu")
                 EXCEPT !.menu = MenuAfterClick(open, in.click)]
    IN  CASE open = "file" -> file_menu(s3, in)
          [] open = "help" -> help_menu(s3, in)
          [] OTHER -> s3

\* A variant of about_window whose close button does not clear the flag.
about_window_stays_open(st, in) ==
    LET l1 == Label(st, "about-ruffle") IN
    IF ~l1.is_about_visible THEN l1
    ELSE LET l2 == Label(l1, "about-ruffle-version") IN
         IF Clicked(in, "AboutClose", TRUE) THEN Click(l2, "AboutClose") ELSE l2

\* egui::Window .open(&mut self.is_about_visible): drawn only while the flag
\* is set; its close button clears the flag.
about_window(st, in) ==
    LET l1 == Label(st, "about-ruffle") IN
    IF ~l1.is_about_visible THEN l1
    ELSE LET l2 == Label(l1, "about-ruffle-version") IN
         IF Clicked(in, "AboutClose", TRUE)
         THEN [Click(l2, "AboutClose") EXCEPT !.is_about_visible = FALSE]
         ELSE l2

\* The body of open_url_prompt is commented out: the function does nothing.
open_url_prompt(st, in) == st

\* A variant of update that draws the menu bar whatever show_menu is.
update_menu_always(st, in) ==
    open_url_prompt(about_window(main_menu_bar(st, in), in), in)

\* A variant of update that draws the about window only under the menu bar.
update_about_with_menu(st, in) ==
    LET s1 == IF in.show_menu THEN about_window(main_menu_bar(st, in), in)
              ELSE st
    IN  open_url_prompt(s1, in)

\* A variant of update that falls back to the default locale in every frame.
update_resets_locale(st, in) ==
    LET s1 == IF in.show_menu THEN main_menu_bar(st, in) ELSE st
        s2 == about_window(s1, in)
    IN  [open_url_prompt(s2, in) EXCEPT !.locale = US_ENGLISH]

update(st, in) ==
    LET s1 == IF in.show_menu THEN main_menu_bar(st, in) ELSE st
        s2 == about_window(s1, in)
    IN  open_url_prompt(s2, in)

(***************************************************************************)
(* Bounds of the model                                                     *)
(***************************************************************************)
MaxHintLen == 5     \* hints enumerated over HintChars are at most this long
MaxTicks == 6       \* updates of a recorded run

(***************************************************************************)
(* The state machine                                                       *)
(***************************************************************************)
Unset == [language |-> "unset"]

NoKeys == [k \in Shortcuts |-> "up"]

\* No update is being observed: the last frame's inputs and outputs are gone.
NoTick ==
    [seen |-> FALSE, show_menu |-> FALSE, has_movie |-> FALSE,
     keys |-> NoKeys, click |-> "None", browser_ok |-> TRUE,
     receiver_open |-> TRUE,
     about_before |-> FALSE, menu_before |-> "none",
     cmds |-> <<>>, results |-> <<>>, launched |-> <<>>, clicked |-> "None",
     consumed |-> {}, errors |-> {}]

NoRun(recording) ==
    [recording |-> recording, ticks |-> 0, sent |-> <<>>, gestures |-> <<>>,
     toggles |-> <<>>, trace |-> <<>>, presses |-> 0, handled |-> 0]

NoCall == [fn |-> "none"]

\* Before RuffleGui::new has run, for the host hint h.
Start(h, ph, recording) ==
    /\ phase = ph
    /\ hint = h
    /\ locale = Unset
    /\ open_url_text = <<>>
    /\ is_about_visible = FALSE
    /\ is_open_url_prompt_visible = FALSE
    /\ menu = "none"
    /\ down = {}
    /\ tick = NoTick
    /\ run = NoRun(recording)
    /\ call = NoCall

\* RuffleGui::new
New ==
    /\ phase = "start"
    /\ phase' = "gui"
    /\ locale' = ResolveLocale(hint)
    /\ open_url_text' = <<>>
    /\ is_about_visible' = FALSE
    /\ is_open_url_prompt_visible' = FALSE
    /\ run' = [run EXCEPT !.trace = <<FALSE>>]
    /\ UNCHANGED <<hint, menu, down, tick, call>>

Inputs ==
    {in \in [show_menu : BOOLEAN, has_movie : BOOLEAN,
             keys : [Shortcuts -> KeyStatus], click : ClickTargets,
             browser_ok : BOOLEAN, receiver_open : BOOLEAN] :
        in.click \notin Links => in.browser_ok}

\* A chord can be held in this frame only if it was down in the last one.
KeysFollow(in) == \A k \in Shortcuts : in.keys[k] = "held" => k \in down

\* What a receiver that records the run has seen after the frame.
Recorded(in, st) ==
    IF ~run.recording THEN run
    ELSE [recording |-> TRUE,
          ticks |-> run.ticks + 1,
          sent |-> run.sent \o st.cmds,
          gestures |-> IF st.clicked \in FileItems \cup HelpItems \cup {"AboutClose"}
                       THEN Append(run.gestures, st.clicked) ELSE run.gestures,
          toggles |-> IF st.clicked = "About" THEN Append(run.toggles, "show")
                      ELSE IF in.click = "AboutClose"
                      THEN Append(run.toggles, "close") ELSE run.toggles,
          trace |-> IF st.is_about_visible # is_about_visible
                    THEN Append(run.trace, st.is_about_visible) ELSE run.trace,
          presses |-> run.presses + (IF in.keys["O"] = "pressed" THEN 1 ELSE 0),
          handled |-> run.handled +
                      (IF in.keys["O"] = "pressed" /\ in.show_menu THEN 1 ELSE 0)]

\* RuffleGui::update(egui_ctx, show_menu, has_movie), for the frame's inputs
Update(in) ==
    /\ phase = "gui"
    /\ ~tick.seen
    /\ KeysFollow(in)
    /\ \E st \in {update(Frame(in), in)} :
        /\ locale' = st.locale
        /\ open_url_text' = st.open_url_text
        /\ is_about_visible' = st.is_about_visible
        /\ is_open_url_prompt_visible' = st.is_open_url_prompt_visible
        /\ menu' = st.menu
        /\ down' = st.down
        /\ tick' = [seen |-> TRUE,
                    show_menu |-> in.show_menu, has_movie |-> in.has_movie,
                    keys |-> in.keys, click |-> in.click,
                    browser_ok |-> in.browser_ok,
                    receiver_open |-> in.receiver_open,
                    about_before |-> is_about_visible, menu_before |-> menu,
                    cmds |-> st.cmds, results |-> st.results,
                    launched |-> st.launched,
                    clicked |-> st.clicked, consumed |-> st.consumed,
                    errors |-> st.errors]
        /\ run' = Recorded(in, st)
    /\ UNCHANGED <<phase, hint, call>>

\* update has returned and the frame is over: egui drops the frame's events
\* and output; the controller's fields, the open menu and the keys that are
\* down stay.
EndFrame ==
    /\ phase = "gui"
    /\ tick.seen
    /\ tick' = NoTick
    /\ UNCHANGED <<phase, hint, locale, open_url_text, is_about_visible,
                   is_open_url_prompt_visible, menu, down, run, call>>

GuiHints == {Absent, Some(Tag_ja_JP)}

Init == \E h \in GuiHints : Start(h, "start", FALSE)

Tick == \E in \in Inputs : Update(in)

Next == New \/ Tick \/ EndFrame

Spec == Init /\ [][Next]_vars

(***************************************************************************)
(* A recorded run: the same controller, driven for at most MaxTicks frames *)
(* by a user of the Open File and About entries and of the open-file       *)
(* chord, with a receiver that keeps every command sent.                   *)
(***************************************************************************)
RunClicks == {"None", "FileMenu", "HelpMenu", "OpenFile", "About", "AboutClose"}

RunInputs ==
    {in \in Inputs : /\ in.click \in RunClicks
                     /\ in.keys["Q"] = "up"
                     /\ ~in.has_movie
                     /\ in.receiver_open}

InitRun == Start(Absent, "start", TRUE)

TickRun == run.ticks < MaxTicks /\ \E in \in RunInputs : Update(in)

NextRun == New \/ TickRun \/ EndFrame

SpecRun == InitRun /\ [][NextRun]_vars

(***************************************************************************)
(* Locale resolution alone: RuffleGui::new for every hint of a bounded set *)
(***************************************************************************)
HintChars == {"x", "Z", "-", "4"}

NamedHints ==
    {Tag_en_US, Tag_ja_JP, Tag_xx_ZZ,
     <<"e","n","_","U","S">>, <<"e","n","-","u","s">>, <<"E","N">>,
     <<"C">>, <<"P","O","S","I","X">>,
     <<"e","n","_","U","S",".","U","T","F","-","8">>,
     <<"z","h","-","H","a","n","s","-","C","N">>,
     <<"e","s","-","4","1","9">>,
     <<"d","e","-","D","E","-","1","9","9","6">>,
     <<"u","n","d">>, <<"j","a","-","J","P","-">>, <<"j","a"," ","J","P">>}

EnumeratedHints == UNION {[1..n -> HintChars] : n \in 0..MaxHintLen}

Hints == {Absent} \cup {Some(s) : s \in NamedHints \cup EnumeratedHints}

InitLocale == \E h \in Hints : Start(h, "start", FALSE)

NextLocale == New

SpecLocale == InitLocale /\ [][NextLocale]_vars

(***************************************************************************)
(* The text functions alone: calls of text and text_with_args              *)
(***************************************************************************)
TextLocales == CatalogLocales \cup {ResolveLocale(Some(Tag_xx_ZZ)),
                                    ResolveLocale(Some(<<"j","a">>))}

TextArgs == {<<>>, [name |-> "Ruffle"]}

CallText(l, id) ==
    /\ phase = "text"
    /\ call' = [fn |-> "text", locale |-> l, id |-> id,
                returned |-> text(l, id)]
    /\ UNCHANGED <<phase, hint, locale, open_url_text, is_about_visible,
                   is_open_url_prompt_visible, menu, down, tick, run>>

CallTextWithArgs(l, id, args) ==
    /\ phase = "text"
    /\ call' = [fn |-> "text_with_args", locale |-> l, id |-> id,
                args |-> args, returned |-> text_with_args(l, id, args)]
    /\ UNCHANGED <<phase, hint, locale, open_url_text, is_about_visible,
                   is_open_url_prompt_visible, menu, down, tick, run>>

InitText == Start(Absent, "text", FALSE)

NextText ==
    \/ \E l \in TextLocales, id \in MessageIds : CallText(l, id)
    \/ \E l \in TextLocales, id \in MessageIds, args \in TextArgs :
           CallTextWithArgs(l, id, args)

SpecText == InitText /\ [][NextText]_vars

(***************************************************************************)
(* The URL prompt as it is written in the commented-out body of            *)
(* open_url_prompt (and the commented-out "Open URL" entry of the File     *)
(* menu that shows it).  The build at hand compiles none of it: update     *)
(* above runs the empty open_url_prompt.  SpecUrlPrompt is the controller  *)
(* with that code enabled, on its own.                                     *)
(***************************************************************************)
UrlChar(c) == IsAlnum(c) \/ c \in {"+", "-", "."}

SpecialSchemes == {<<"h","t","t","p">>, <<"h","t","t","p","s">>,
                   <<"f","t","p">>, <<"w","s">>, <<"w","s","s">>}

\* The first index of c in s, or 0.
Find(s, c) ==
    IF \E i \in DOMAIN s : s[i] = c
    THEN CHOOSE i \in DOMAIN s : s[i] = c /\ \A j \in 1..(i - 1) : s[j] # c
    ELSE 0

DropSlashes(s) ==
    LET RECURSIVE go(_)
        go(i) == IF i <= Len(s) /\ s[i] \in {"/", "\\"} THEN go(i + 1)
                 ELSE SubSeq(s, i, Len(s))
    IN  go(1)

HostOf(rest) ==
    LET ends == {i \in DOMAIN rest : rest[i] \in {"/", "?", "#"}} IN
    IF ends = {} THEN rest
    ELSE SubSeq(rest, 1, (CHOOSE i \in ends : \A j \in ends : i <= j) - 1)

\* url::Url::parse without a base: the text needs a scheme (a letter, then
\* letters, digits, '+', '-', '.') before its first ':'; a special scheme
\* needs a host, in which no space may stand.
UrlParse(s) ==
    LET colon == Find(s, ":")
        scheme == LowerCase(SubSeq(s, 1, colon - 1))
        rest == SubSeq(s, colon + 1, Len(s))
        host == HostOf(DropSlashes(rest))
    IN  IF colon < 2 \/ ~IsAlpha(s[1]) \/ \E i \in 1..(colon - 1) : ~UrlChar(s[i])
        THEN Absent
        ELSE IF scheme \in SpecialSchemes /\ (host = <<>> \/ Find(host, " ") # 0)
        THEN Absent
        ELSE Some([scheme |-> scheme, rest |-> rest])

OpenURL(url) == <<"OpenURL", url>>

InvalidUrl(s) == <<"Invalid URL", s>>

Url_not_a_url == <<"n","o","t"," ","a"," ","u","r","l">>
Url_http_a == <<"h","t","t","p",":","/","/","a">>

UrlTexts ==
    {<<>>, Url_not_a_url, Url_http_a, <<"H","T","T","P",":","/","/","a">>,
     <<"h","t","t","p",":","/","/">>, <<"h","t","t","p",":","/","/","a"," ","b">>,
     <<"m","a","i","l","t","o",":","x">>, <<"a"," ","b",":","c">>,
     <<":","/","/","x">>, <<"1","a",":","x">>, <<"f","i","l","e",":","/","/","/","x">>}

\* The inputs of a frame for the prompt: Enter and Escape key presses, one
\* click, and the buffer as text_edit_singleline leaves it.
PromptClicks == {"None", "Ok", "Cancel", "PromptClose"}

PromptInputs ==
    [enter : BOOLEAN, esc : BOOLEAN, click : PromptClicks, text : UrlTexts]

PromptFrame ==
    [is_open_url_prompt_visible |-> is_open_url_prompt_visible,
     open_url_text |-> open_url_text,
     cmds |-> <<>>,
     errors |-> <<>>,
     close_prompt |-> FALSE]

PromptLabel(st, id) == [st EXCEPT !.errors = @ \o text(locale, id).errors]

\* A variant of open_url_prompt_body that closes the prompt only after a
\* command was sent.
open_url_prompt_keeps_open(st, in) ==
    LET l1 == PromptLabel(st, "open-url") IN
    IF ~l1.is_open_url_prompt_visible THEN l1
    ELSE
    LET s1 == [l1 EXCEPT !.open_url_text = in.text]
        l2 == PromptLabel(s1, "dialog-ok")
        url == UrlParse(l2.open_url_text)
        s2 == IF in.click = "Ok" \/ in.enter
              THEN IF url.some
                   THEN [l2 EXCEPT !.cmds = Append(@, OpenURL(url.value)),
                                   !.close_prompt = TRUE]
                   ELSE [l2 EXCEPT !.errors =
                                       Append(@, InvalidUrl(l2.open_url_text))]
              ELSE l2
        l3 == PromptLabel(s2, "dialog-cancel")
        s3 == IF in.click = "Cancel" \/ in.esc
              THEN [l3 EXCEPT !.close_prompt = TRUE] ELSE l3
        s4 == IF in.click = "PromptClose"
              THEN [s3 EXCEPT !.is_open_url_prompt_visible = FALSE] ELSE s3
    IN  IF s4.close_prompt
        THEN [s4 EXCEPT !.is_open_url_prompt_visible = FALSE] ELSE s4

\* The commented-out body of open_url_prompt.
open_url_prompt_body(st, in) ==
    LET l1 == PromptLabel(st, "open-url") IN
    IF ~l1.is_open_url_prompt_visible THEN l1
    ELSE
    LET s1 == [l1 EXCEPT !.open_url_text = in.text]
        l2 == PromptLabel(s1, "dialog-ok")
        url == UrlParse(l2.open_url_text)
        s2 == IF in.click = "Ok" \/ in.enter
              THEN [(IF url.some
                     THEN [l2 EXCEPT !.cmds = Append(@, OpenURL(url.value))]
                     ELSE [l2 EXCEPT !.errors =
                                         Append(@, InvalidUrl(l2.open_url_text))])
                       EXCEPT !.close_prompt = TRUE]
              ELSE l2
        l3 == PromptLabel(s2, "dialog-cancel")
        s3 == IF in.click = "Cancel" \/ in.esc
              THEN [l3 EXCEPT !.close_prompt = TRUE] ELSE l3
        s4 == IF in.click = "PromptClose"
              THEN [s3 EXCEPT !.is_open_url_prompt_visible = FALSE] ELSE s3
    IN  IF s4.close_prompt
        THEN [s4 EXCEPT !.is_open_url_prompt_visible = FALSE] ELSE s4

\* show_open_url_prompt, for a click on the commented-out "Open URL" entry
ShowOpenUrlPrompt ==
    /\ phase = "gui"
    /\ ~tick.seen
    /\ is_open_url_prompt_visible' = TRUE
    /\ menu' = "none"
    /\ UNCHANGED <<phase, hint, locale, open_url_text, is_about_visible,
                   down, tick, run, call>>

UrlPromptUpdate(in) ==
    /\ phase = "gui"
    /\ ~tick.seen
    /\ \E st \in {open_url_prompt_body(PromptFrame, in)} :
        /\ is_open_url_prompt_visible' = st.is_open_url_prompt_visible
        /\ open_url_text' = st.open_url_text
        /\ tick' = [seen |-> TRUE, prompt_before |-> is_open_url_prompt_visible,
                    enter |-> in.enter, esc |-> in.esc, click |-> in.click,
                    text |-> in.text, cmds |-> st.cmds, errors |-> st.errors]
    /\ UNCHANGED <<phase, hint, locale, is_about_visible, menu, down, run,
                   call>>

InitUrlPrompt == Start(Absent, "start", FALSE)

NextUrlPrompt ==
    \/ New
    \/ ShowOpenUrlPrompt
    \/ \E in \in PromptInputs : UrlPromptUpdate(in)
    \/ EndFrame

SpecUrlPrompt == InitUrlPrompt /\ [][NextUrlPrompt]_vars

(***************************************************************************)
(* Claims                                                                  *)
(***************************************************************************)
Pressed(t) == {k \in Shortcuts : t.keys[k] = "pressed"}

\* C1 (as stated): the shortcut scan runs in every update, also when show_menu
\* is false: a chord pressed in a frame is consumed in it, and OpenFile
\* (for O) or ExitRequested (for Q) is sent in that frame.
C1_ScanEveryTick ==
    tick.seen =>
        /\ tick.consumed = Pressed(tick)
        /\ "O" \in Pressed(tick) => Count(tick.cmds, "OpenFile") >= 1
        /\ "Q" \in Pressed(tick) => Count(tick.cmds, "ExitRequested") >= 1

\* C1 (amended): the shortcut scan is part of the menu bar.  In an update with
\* show_menu true every pressed chord is consumed, a consumed O sends
\* OpenFile and a consumed Q sends ExitRequested in that frame; in an update
\* with show_menu false no chord is consumed and no command is sent.
C1_ScanWithMenuBar ==
    tick.seen =>
        /\ tick.show_menu => tick.consumed = Pressed(tick)
        /\ "O" \in tick.consumed => Count(tick.cmds, "OpenFile") >= 1
        /\ "Q" \in tick.consumed => Count(tick.cmds, "ExitRequested") >= 1
        /\ ~tick.show_menu => tick.consumed = {} /\ tick.cmds = <<>>

C1_Witness ==
    /\ tick.seen /\ tick.show_menu
    /\ tick.consumed = {"O", "Q"}
    /\ tick.cmds = <<"OpenFile", "ExitRequested">>

\* C2 (as stated): for the host hint "xx-ZZ" RuffleGui::new stores en-US.
C2_UnsupportedHintGivesDefault ==
    (phase = "gui" /\ hint = Some(Tag_xx_ZZ)) => locale = US_ENGLISH

\* C2 (amended): for the host hint "xx-ZZ" RuffleGui::new stores the parsed
\* tag xx-ZZ itself, which is no locale of the catalog; en-US is only where
\* text lookups under that locale end up, for every id en-US has.
C2_UnsupportedHintKept ==
    (phase = "gui" /\ hint = Some(Tag_xx_ZZ)) =>
        /\ Display(locale) = Tag_xx_ZZ
        /\ locale \notin CatalogLocales
        /\ \A id \in CatalogIds(US_ENGLISH) :
               text(locale, id).value.message.template = Template(US_ENGLISH, id)

C2_Witness == phase = "gui" /\ hint = Some(Tag_xx_ZZ) /\ locale # US_ENGLISH

\* C3: RuffleGui::new never fails and always stores a language identifier:
\* the default en-US when the hint is absent or does not parse, the hint's
\* own tag when the hint is a tag the catalog supports.
SupportedTags == {Display(l) : l \in CatalogLocales}

MalformedHints == {<<>>, <<"C">>, <<"j","a"," ","J","P">>, <<"-">>,
                   <<"e","n","_","U","S",".","U","T","F","-","8">>}

C3_LocaleAlwaysResolved ==
    /\ phase = "start" => ENABLED New
    /\ phase = "gui" =>
        /\ IsLangId(locale)
        /\ ~hint.some => locale = US_ENGLISH
        /\ (hint.some /\ ~Parse(hint.value).ok) => locale = US_ENGLISH
        /\ (hint.some /\ hint.value \in MalformedHints) => locale = US_ENGLISH
        /\ (hint.some /\ hint.value \in SupportedTags) =>
               locale \in CatalogLocales /\ Display(locale) = hint.value

C3_Witness ==
    /\ phase = "gui" /\ hint = Some(<<"C">>) /\ locale = US_ENGLISH
    /\ US_ENGLISH = Parse(Tag_en_US).id

\* C4: for an id that neither the requested locale nor the fallback locale has,
\* text and text_with_args return the id itself, log exactly one error, and
\* the call is always possible (nothing is raised).
InNeither(l, id) ==
    id \notin CatalogIds(l) /\ id \notin CatalogIds(FallbackLanguage)

C4_UnknownIdDegrades ==
    /\ phase = "text" =>
           \A l \in TextLocales, id \in MessageIds :
               /\ ENABLED CallText(l, id)
               /\ \A args \in TextArgs : ENABLED CallTextWithArgs(l, id, args)
    /\ (call.fn # "none" /\ InNeither(call.locale, call.id)) =>
           /\ call.returned.value = Borrowed(call.id)
           /\ Len(call.returned.errors) = 1

C4_Witness ==
    /\ call.fn = "text_with_args" /\ call.id = "no-such-text"
    /\ call.locale = JAPANESE
    /\ call.returned.value = Borrowed("no-such-text")

\* C5: for every locale and every id the fallback locale en-US has, text
\* returns a catalog template (the requested locale's when it has the id,
\* else the fallback's), never the id, and logs nothing.
C5_FallbackLookup ==
    (call.fn = "text" /\ call.id \in CatalogIds(FallbackLanguage)) =>
        /\ call.returned.value.cow = "owned"
        /\ call.returned.value.message.template =
               (IF call.id \in CatalogIds(call.locale)
                THEN Template(call.locale, call.id)
                ELSE Template(FallbackLanguage, call.id))
        /\ call.returned.errors = <<>>

C5_Witness ==
    /\ call.fn = "text" /\ call.locale = JAPANESE /\ call.id = "file-menu-exit"
    /\ call.returned.value.message.template =
           Template(US_ENGLISH, "file-menu-exit")

\* C6: Close is gated by has_movie.  In an update with has_movie false no
\* CloseFile is sent wherever the click lands; in an update with has_movie and
\* show_menu true a click on the Close entry of the open File menu sends
\* exactly one CloseFile.
C6_CloseGated ==
    tick.seen =>
        /\ ~tick.has_movie => Count(tick.cmds, "CloseFile") = 0
        /\ (/\ tick.has_movie /\ tick.show_menu
            /\ tick.menu_before = "file" /\ tick.click = "Close") =>
               Count(tick.cmds, "CloseFile") = 1

C6_Witness ==
    /\ tick.seen /\ tick.has_movie /\ tick.show_menu
    /\ tick.clicked = "Close" /\ tick.cmds = <<"CloseFile">>
\* C7 (as stated): one physical press of the open-file chord, however long
\* the key is held afterwards, results in exactly one OpenFile over the run
\* (runs without a click on Open File, so that every OpenFile is the chord's).
C7_OnePressOneOpenFile ==
    (run.recording /\ run.presses = 1 /\ Count(run.gestures, "OpenFile") = 0)
        => Count(run.sent, "OpenFile") = 1

\* C7 (amended): a press of the open-file chord results in exactly one
\* OpenFile when its press event arrives in an update with show_menu true and
\* in none when show_menu is false in that update; frames in which the key is
\* only held send nothing.  Over a run, the OpenFile commands sent are the
\* presses that arrived with show_menu true plus the clicks on Open File.
C7_EdgeTriggered ==
    run.recording =>
        /\ Count(run.sent, "OpenFile") =
               run.handled + Count(run.gestures, "OpenFile")
        /\ (tick.seen /\ tick.keys["O"] = "held") =>
               Count(tick.cmds, "OpenFile") =
                   (IF tick.clicked = "OpenFile" THEN 1 ELSE 0)

C7_Witness ==
    /\ run.presses = 1 /\ run.handled = 1 /\ run.ticks >= 3
    /\ tick.seen /\ tick.show_menu /\ tick.keys["O"] = "held"
    /\ Count(run.gestures, "OpenFile") = 0
    /\ run.sent = <<"OpenFile">>

\* C8: the about toggles are idempotent.  After any sequence of toggles (About
\* clicked: "show"; the about window's close button clicked, or clicked at
\* when the window is already gone: "close") the flag is what the last toggle
\* alone gives: show, show leaves it true and close, close leaves it false.
C8_TogglesIdempotent ==
    (run.recording /\ run.toggles # <<>>) =>
        is_about_visible = (run.toggles[Len(run.toggles)] = "show")

C8_Witness ==
    /\ run.toggles = <<"show", "show", "close", "close">>
    /\ ~is_about_visible
    /\ run.trace = <<FALSE, TRUE, FALSE>>

\* C9: from a fresh controller, the clicks Open File, About, close of the about
\* window (and no shortcut) send exactly [OpenFile] and move the about flag
\* hidden -> visible -> hidden, the send before the first move, ending hidden.
C9_Scenario ==
    (run.recording /\ phase = "gui" /\ run.presses = 0) =>
        /\ run.gestures = <<"OpenFile">> =>
               run.sent = <<"OpenFile">> /\ run.trace = <<FALSE>>
        /\ run.gestures = <<"OpenFile", "About">> =>
               /\ run.sent = <<"OpenFile">>
               /\ run.trace = <<FALSE, TRUE>>
               /\ is_about_visible
        /\ run.gestures = <<"OpenFile", "About", "AboutClose">> =>
               /\ run.sent = <<"OpenFile">>
               /\ run.trace = <<FALSE, TRUE, FALSE>>
               /\ ~is_about_visible

C9_Witness ==
    /\ run.presses = 0
    /\ run.gestures = <<"OpenFile", "About", "AboutClose">>
    /\ run.sent = <<"OpenFile">>
    /\ ~is_about_visible
\* C10 (as stated): in the URL prompt, Enter or OK with a buffer that does
\* not parse as a URL sends no OpenURL, logs exactly one error and leaves the
\* prompt visible.
Rejected(t) ==
    /\ t.seen /\ t.prompt_before
    /\ t.enter \/ t.click = "Ok"
    /\ ~UrlParse(t.text).some

InputOf(t) ==
    [show_menu |-> t.show_menu, has_movie |-> t.has_movie, keys |-> t.keys,
     click |-> t.click, browser_ok |-> t.browser_ok,
     receiver_open |-> t.receiver_open]

\* The entry of the open menu the frame's click lands on and that is enabled,
\* or "None": the click gesture of the frame as the menu bar sees it.
ItemClick(t) ==
    IF /\ t.show_menu
       /\ t.click \in ItemsOf(t.menu_before)
       /\ (t.click = "Close" => t.has_movie)
    THEN t.click ELSE "None"

\* C11: a closed command receiver is never escalated.  An update whose sends
\* fail with EventLoopClosed runs to its end: every command of the frame is
\* still handed to send_event, each send fails, and the controller's fields
\* and the menu after the frame are those the same frame gives with the
\* receiver open; the frame ends and the next update can run.
C11_ClosedReceiverNotEscalated ==
    /\ []((phase = "gui" /\ ~tick.seen) => ENABLED Tick)
    /\ []((tick.seen /\ ~tick.receiver_open) => ENABLED EndFrame)
    /\ [][(~tick.seen /\ tick'.seen /\ ~tick'.receiver_open) =>
            LET in == InputOf(tick')
                ok == update([Frame(in) EXCEPT !.receiver_open = TRUE], in)
            IN  /\ locale' = ok.locale
                /\ open_url_text' = ok.open_url_text
                /\ is_about_visible' = ok.is_about_visible
                /\ is_open_url_prompt_visible' = ok.is_open_url_prompt_visible
                /\ menu' = ok.menu
                /\ tick'.cmds = ok.cmds
                /\ tick'.clicked = ok.clicked
                /\ Len(tick'.results) = Len(tick'.cmds)
                /\ \A i \in DOMAIN tick'.results :
                       tick'.results[i] = "EventLoopClosed"]_vars

C11_Witness ==
    /\ tick.seen /\ ~tick.receiver_open
    /\ tick.menu_before = "file" /\ tick.clicked = "Close"
    /\ tick.cmds = <<"OpenFile", "ExitRequested", "CloseFile">>
    /\ tick.results = <<"EventLoopClosed", "EventLoopClosed", "EventLoopClosed">>
    /\ menu = "none"

\* C12: the commands of an update are exactly those of its gestures, in the
\* order the menu bar handles them: OpenFile for a consumed open-file chord,
\* ExitRequested for a consumed quit chord, then the command of the clicked
\* menu entry (OpenFile for Open File, CloseFile for an enabled Close,
\* ExitRequested for Exit); an update with none of these gestures (an idle
\* one, one that only draws the about window, a click on About or on a
\* website link) sends nothing.
ShortcutCommands(t) ==
    (IF "O" \in t.consumed THEN <<"OpenFile">> ELSE <<>>)
        \o (IF "Q" \in t.consumed THEN <<"ExitRequested">> ELSE <<>>)

ClickCommands(t) ==
    CASE ItemClick(t) = "OpenFile" -> <<"OpenFile">>
      [] ItemClick(t) = "Close" -> <<"CloseFile">>
      [] ItemClick(t) = "Exit" -> <<"ExitRequested">>
      [] OTHER -> <<>>

C12_CommandsFollowGestures ==
    tick.seen =>
        /\ tick.consumed = (IF tick.show_menu THEN Pressed(tick) ELSE {})
        /\ tick.clicked \in FileItems \cup HelpItems => tick.clicked = ItemClick(tick)
        /\ tick.cmds = ShortcutCommands(tick) \o ClickCommands(tick)
        /\ Len(tick.results) = Len(tick.cmds)

C12_Witness ==
    /\ tick.seen /\ tick.consumed = {"O"} /\ tick.clicked = "Exit"
    /\ tick.cmds = <<"OpenFile", "ExitRequested">>

\* C13: a click on a website link of the Help menu (Discord, report a bug,
\* sponsor, translate) hands its URL to the browser once and sends no
\* command: the commands of that update are those of its consumed chords
\* alone, none when no chord was consumed.  The update leaves is_about_visible,
\* is_open_url_prompt_visible, open_url_text and locale as they were, whether
\* the browser could be started or not.
C13_LinksSendNothing ==
    [][(~tick.seen /\ tick'.seen /\ tick'.clicked \in Links) =>
          /\ tick'.launched = <<[url |-> LinkUrl(tick'.clicked),
                                 ok |-> tick'.browser_ok]>>
          /\ tick'.cmds = ShortcutCommands(tick')
          /\ tick'.consumed = {} => tick'.cmds = <<>>
          /\ is_about_visible' = is_about_visible
          /\ is_open_url_prompt_visible' = is_open_url_prompt_visible
          /\ open_url_text' = open_url_text
          /\ locale' = locale]_vars

C13_Witness ==
    /\ tick.seen /\ tick.clicked = "Sponsor" /\ ~tick.browser_ok
    /\ tick.launched = <<[url |-> "https://opencollective.com/ruffle/",
                          ok |-> FALSE]>>
    /\ tick.cmds = <<>>
    /\ is_about_visible

\* C14: every handler of a menu entry (Open File, Close, Exit, the four website
\* links, About) closes the menu it is in: after an update in which an entry
\* of the open menu reported a click the menu is closed, also when the send
\* failed (receiver gone) or the browser could not be started.
C14_ItemClickClosesMenu ==
    tick.seen =>
        /\ ItemClick(tick) # "None" => tick.clicked = ItemClick(tick)
        /\ tick.clicked \in FileItems \cup HelpItems =>
               tick.menu_before # "none" /\ menu = "none"

C14_Witness ==
    /\ tick.seen /\ tick.menu_before = "help" /\ tick.clicked = "Discord"
    /\ ~tick.browser_ok /\ ~tick.receiver_open
    /\ menu = "none"

\* C15: in an update with show_menu false no menu entry fires: no entry
\* reports a click, no CloseFile is sent, no website is launched and
\* is_about_visible does not go from false to true - also when a menu was
\* left open by the frame before and the click lands where its entry was.
C15_NoMenuNoClickTransition ==
    (tick.seen /\ ~tick.show_menu) =>
        /\ tick.clicked \notin FileItems \cup HelpItems
        /\ Count(tick.cmds, "CloseFile") = 0
        /\ tick.launched = <<>>
        /\ ~(~tick.about_before /\ is_about_visible)

C15_Witness ==
    /\ tick.seen /\ ~tick.show_menu
    /\ tick.menu_before = "help" /\ tick.click = "About"
    /\ ~tick.about_before /\ ~is_about_visible

\* C16: the locale is set by RuffleGui::new and by nothing else: no step after
\* construction changes it, so that after any updates it is still what new
\* made of the host's hint.
C16_LocaleImmutable ==
    /\ [](phase = "gui" => locale = ResolveLocale(hint))
    /\ [][phase = "gui" => locale' = locale]_vars

C16_Witness ==
    /\ tick.seen /\ hint = Some(Tag_ja_JP) /\ locale = JAPANESE
    /\ tick.clicked = "About" /\ tick.consumed = {"O", "Q"}

\* C17: the URL prompt is inert in this build.  In every state reached from
\* construction by updates the prompt is hidden, its buffer is empty, every
\* command handed to send_event is OpenFile, CloseFile or ExitRequested
\* (never OpenURL, never ContextMenuItemClicked), and the about window and
\* the prompt are never visible together.
BuildCommands == {"OpenFile", "CloseFile", "ExitRequested"}

C17_UrlPromptInert ==
    /\ is_open_url_prompt_visible = FALSE
    /\ open_url_text = <<>>
    /\ tick.seen => \A i \in DOMAIN tick.cmds : tick.cmds[i] \in BuildCommands
    /\ ~(is_about_visible /\ is_open_url_prompt_visible)

C17_Witness ==
    /\ tick.seen /\ tick.clicked = "About" /\ is_about_visible
    /\ tick.cmds = <<"OpenFile">>
    /\ ~is_open_url_prompt_visible /\ open_url_text = <<>>

\* C18: the about window is handled in every update, whatever show_menu is:
\* a click on its close button while it is visible hides it in that update,
\* also with show_menu false.  is_about_visible changes in an update only to
\* true by a click on About and only to false by that close button; updates
\* with any other gesture (Open File, Close, Exit, chords, website links)
\* leave it as it was.
C18_AboutEveryTick ==
    tick.seen =>
        /\ (tick.about_before /\ tick.click = "AboutClose") => ~is_about_visible
        /\ (is_about_visible /\ ~tick.about_before) => tick.clicked = "About"
        /\ (~is_about_visible /\ tick.about_before) => tick.clicked = "AboutClose"
        /\ tick.clicked \notin {"About", "AboutClose"} =>
               is_about_visible = tick.about_before

C18_Witness ==
    /\ tick.seen /\ ~tick.show_menu /\ tick.about_before
    /\ tick.clicked = "AboutClose" /\ tick.keys["O"] = "pressed"
    /\ ~is_about_visible

====
